---------------------------- MODULE Spec2Model ----------------------------
(***************************************************************************)
(* Model of src/scraper_api.py: the FastAPI handler fetch_uaf_results,     *)
(* which GETs the portal login page, extracts a token, POSTs it with the   *)
(* registration number, parses the returned HTML and answers with the      *)
(* student's courses or with an HTTPException.                             *)
(*                                                                         *)
(* The handler is a coroutine on one event loop: between two awaits it     *)
(* runs without interruption, so each action below is the code from one    *)
(* await to the next.                                                      *)
(*                                                                         *)
(* Text is a sequence of atoms.  An atom is a piece of text the code never *)
(* looks inside: a whitespace character, a word, or one of the phrases the *)
(* code searches for.  An HTML document is the tree html.parser builds:    *)
(* top-level text nodes and tables; a table has rows, a row has cells      *)
(* (td or th), a cell has its own text and possibly tables nested in it.   *)
(***************************************************************************)
EXTENDS Naturals, Sequences, FiniteSets

\* ------------------------------------------------------------- bounds
\* Requests the server has in flight at once (specification Spec).
NumRequests == 2
\* Top-level nodes of a result page, and rows over all its top-level
\* tables (specification SpecFetch).
MaxNodes == 2
MaxRows == 2

\* ---------------------------------------------------- program constants
\* src/scraper_api.py:87   if len(cols) >= 12
MinCells == 12

UAF_LOGIN_URL == "https://lms.uaf.edu.pk/login/index.php"
UAF_RESULT_URL == "https://lms.uaf.edu.pk/course/uaf_student_result.php"

\* ----------------------------------------------------------------- text
Whitespace == {" ", "\n"}

RECURSIVE lstrip(_)
lstrip(s) ==
    IF s # <<>> /\ Head(s) \in Whitespace THEN lstrip(Tail(s)) ELSE s

RECURSIVE rstrip(_)
rstrip(s) ==
    IF s # <<>> /\ s[Len(s)] \in Whitespace
    THEN rstrip(SubSeq(s, 1, Len(s) - 1))
    ELSE s

\* str.strip(): leading and trailing whitespace removed, inner kept.
strip(s) == rstrip(lstrip(s))

\* re.I: the case variants of the two phrases the code searches for.
Fold(a) ==
    CASE a \in {"Course Code", "COURSE CODE", "course code"} -> "course code"
      [] a \in {"Student Full Name", "STUDENT FULL NAME"} -> "student full name"
      [] OTHER -> a

\* re.compile(phrase, re.I).search(s): the phrase occurs in s in any case.
SearchI(phrase, s) == \E k \in DOMAIN s : Fold(s[k]) = Fold(phrase)

\* phrase in s: a case-sensitive substring test.
Contains(phrase, s) == \E k \in DOMAIN s : s[k] = phrase

RECURSIVE Flatten(_)
Flatten(ss) == IF ss = <<>> THEN <<>> ELSE Head(ss) \o Flatten(Tail(ss))

\* ------------------------------------------------------------ HTML tree
Td(s) == [tag |-> "td", text |-> s, inner |-> <<>>]
Th(s) == [tag |-> "th", text |-> s, inner |-> <<>>]
TdWith(s, tables) == [tag |-> "td", text |-> s, inner |-> tables]
Table(rows) == [kind |-> "table", rows |-> rows]
TextNode(s) == [kind |-> "text", text |-> s]

RECURSIVE TableTables(_)
RECURSIVE RowTables(_)
\* The tables inside a row, outermost first, in document order.
RowTables(r) ==
    Flatten([k \in DOMAIN r |->
        Flatten([j \in DOMAIN r[k].inner |-> TableTables(r[k].inner[j])])])
\* A table followed by the tables nested in it.
TableTables(t) ==
    <<t>> \o Flatten([k \in DOMAIN t.rows |-> RowTables(t.rows[k])])

\* soup.find_all('table'): every table of the document, nested ones too.
find_all_table(doc) ==
    Flatten([k \in DOMAIN doc |->
        IF doc[k].kind = "table" THEN TableTables(doc[k]) ELSE <<>>])

RECURSIVE find_all_tr(_)
\* t.find_all('tr'): every row inside t, rows of nested tables included,
\* each row before the rows nested in its cells.
find_all_tr(t) ==
    Flatten([k \in DOMAIN t.rows |->
        <<t.rows[k]>> \o
        Flatten([c \in DOMAIN t.rows[k] |->
            Flatten([j \in DOMAIN t.rows[k][c].inner |->
                find_all_tr(t.rows[k][c].inner[j])])])])

RECURSIVE find_all_td(_)
\* row.find_all('td'): every td inside the row, th cells skipped, the td
\* cells of nested tables included, each cell before those nested in it.
find_all_td(r) ==
    Flatten([c \in DOMAIN r |->
        (IF r[c].tag = "td" THEN <<r[c]>> ELSE <<>>) \o
        Flatten([j \in DOMAIN r[c].inner |->
            Flatten([k \in DOMAIN r[c].inner[j].rows |->
                find_all_td(r[c].inner[j].rows[k])])])])

RECURSIVE CellText(_)
\* cell.text: the cell's own text followed by the text of everything in it.
CellText(c) ==
    c.text \o
    Flatten([j \in DOMAIN c.inner |->
        Flatten([k \in DOMAIN c.inner[j].rows |->
            Flatten([d \in DOMAIN c.inner[j].rows[k] |->
                CellText(c.inner[j].rows[k][d])])])])

RECURSIVE RowStrings(_)
\* The text nodes inside a row in document order, each with the nearest
\* row around it (what find_parent('tr') returns).
RowStrings(r) ==
    Flatten([c \in DOMAIN r |->
        (IF r[c].text # <<>> THEN <<[text |-> r[c].text, tr |-> <<r>>]>> ELSE <<>>) \o
        Flatten([j \in DOMAIN r[c].inner |->
            Flatten([k \in DOMAIN r[c].inner[j].rows |->
                RowStrings(r[c].inner[j].rows[k])])])])

TableStrings(t) == Flatten([k \in DOMAIN t.rows |-> RowStrings(t.rows[k])])

\* Every text node of the document in document order; tr is empty for a
\* text node that no row encloses.
DocStrings(doc) ==
    Flatten([k \in DOMAIN doc |->
        IF doc[k].kind = "table"
        THEN TableStrings(doc[k])
        ELSE <<[text |-> doc[k].text, tr |-> <<>>]>>])

\* res_response.text: the markup as one string.  Only its text nodes are
\* modelled, so a phrase is in the body when a text node holds it.
BodyText(doc) ==
    LET ss == DocStrings(doc) IN Flatten([k \in DOMAIN ss |-> ss[k].text])


\* ------------------------------------------------ step 1: token regex
TokenPrefix == "document.getElementById('token').value='"
Quote == "'"
\* The part of TokenPrefix before its first quote character.
PrefixHead == "document.getElementById("
HasQuote(a) == a \in {Quote, TokenPrefix}

\* The lazy group (.*?) followed by a quote, tried at position k + 1: it
\* ends at the first atom holding a quote, and fails when a newline comes
\* first ('.' does not match a newline) or no quote follows.
GroupEnd(text, k) ==
    LET ends == {j \in (k + 1)..Len(text) :
                    /\ HasQuote(text[j])
                    /\ \A m \in (k + 1)..(j - 1) :
                          ~HasQuote(text[m]) /\ text[m] # "\n"}
    IN  IF ends = {} THEN 0 ELSE CHOOSE j \in ends : TRUE

MatchAt(text, k) == text[k] = TokenPrefix /\ GroupEnd(text, k) # 0

\* The search as re.DOTALL would make it: the group runs over newlines to
\* the first quote anywhere after the prefix.
token_search_dotall(text) ==
    LET ends(k) == {j \in (k + 1)..Len(text) : HasQuote(text[j])}
        hits == {k \in DOMAIN text : text[k] = TokenPrefix /\ ends(k) # {}}
    IN  IF hits = {}
        THEN [found |-> FALSE, group1 |-> <<>>]
        ELSE LET k == CHOOSE h \in hits : \A g \in hits : h <= g
                 j == CHOOSE e \in ends(k) : \A f \in ends(k) : e <= f
             IN  [found |-> TRUE, group1 |-> SubSeq(text, k + 1, j - 1)]

\* re.search(r"document\.getElementById\('token'\)\.value='(.*?)'", text):
\* the leftmost position where the pattern matches, and group(1) there.
token_search(text) ==
    LET hits == {k \in DOMAIN text : MatchAt(text, k)}
    IN  IF hits = {}
        THEN [found |-> FALSE, group1 |-> <<>>]
        ELSE LET k == CHOOSE h \in hits : \A g \in hits : h <= g
                 j == GroupEnd(text, k)
             IN  [found |-> TRUE,
                  group1 |-> SubSeq(text, k + 1, j - 1) \o
                             (IF text[j] = TokenPrefix THEN <<PrefixHead>> ELSE <<>>)]

\* ------------------------------------------------- step 3: extraction
UnknownStudent == <<"Unknown Student">>

\* soup.find(string=re.compile("Student Full Name", re.I)): the first text
\* node of the document that matches, as a sequence of at most one.
find_name_cell(doc) ==
    LET ss == DocStrings(doc)
        hits == {k \in DOMAIN ss : SearchI("Student Full Name", ss[k].text)}
    IN  IF hits = {} THEN <<>>
        ELSE <<ss[CHOOSE h \in hits : \A g \in hits : h <= g]>>

\* The name taken from the first td of the row instead of the second.
student_name_first_cell(doc) ==
    LET name_cell == find_name_cell(doc)
    IN  IF name_cell = <<>> THEN UnknownStudent
        ELSE LET name_row == name_cell[1].tr
             IN  IF name_row = <<>> THEN UnknownStudent
                 ELSE LET cells == find_all_td(name_row[1])
                      IN  IF Len(cells) > 0
                          THEN strip(CellText(cells[1]))
                          ELSE UnknownStudent

\* Lines 62-69: the student's name, or the placeholder.
student_name(doc) ==
    LET name_cell == find_name_cell(doc)
    IN  IF name_cell = <<>> THEN UnknownStudent
        ELSE LET name_row == name_cell[1].tr
             IN  IF name_row = <<>> THEN UnknownStudent
                 ELSE LET cells == find_all_td(name_row[1])
                      IN  IF Len(cells) > 1
                          THEN strip(CellText(cells[2]))
                          ELSE UnknownStudent

\* t.find(string=re.compile("Course Code", re.I)) is not None
HasCourseCode(t) ==
    LET ss == TableStrings(t)
    IN  \E k \in DOMAIN ss : SearchI("Course Code", ss[k].text)

\* Lines 75-79: the first table of find_all('table') holding the marker,
\* as a sequence of at most one (empty: target_table is None).
target_table(doc) ==
    LET tables == find_all_table(doc)
        hits == {k \in DOMAIN tables : HasCourseCode(tables[k])}
    IN  IF hits = {} THEN <<>>
        ELSE <<tables[CHOOSE h \in hits : \A g \in hits : h <= g]>>

CourseKeys ==
    {"Semester", "Course Code", "Course Title", "Credit Hours", "Total", "Grade"}

\* Lines 89-94: the index into cols (counted from 0) of each key.
CourseColumn(key) ==
    CASE key = "Semester" -> 1
      [] key = "Course Code" -> 3
      [] key = "Course Title" -> 4
      [] key = "Credit Hours" -> 5
      [] key = "Total" -> 10
      [] key = "Grade" -> 11

\* cols[n] with Python's indices, which start at 0.
Item(cols, n) == cols[n + 1]

CourseEntry(cols) ==
    [key \in CourseKeys |-> strip(CellText(Item(cols, CourseColumn(key))))]

\* The row test with the comparison off by one.
Qualifies_more_than(cols) == Len(cols) > MinCells

\* Line 87: the row is a data row.
Qualifies(cols) == Len(cols) >= MinCells

RECURSIVE CoursesOfRows(_)
\* Lines 84-95: the loop over rows, appending an entry per data row.
CoursesOfRows(rows) ==
    IF rows = <<>> THEN <<>>
    ELSE LET cols == find_all_td(Head(rows))
         IN  (IF Qualifies(cols) THEN <<CourseEntry(cols)>> ELSE <<>>)
             \o CoursesOfRows(Tail(rows))

\* Lines 72-95.
courses(doc) ==
    LET target == target_table(doc)
    IN  IF target = <<>> THEN <<>> ELSE CoursesOfRows(find_all_tr(target[1]))

\* Lines 98-100: what the 404 detail reports.
debug_info(doc) ==
    LET target == target_table(doc)
    IN  [tables |-> Len(find_all_table(doc)),
         target_found |-> target # <<>>,
         rows |-> IF target # <<>> THEN <<Len(find_all_tr(target[1]))>> ELSE <<>>]

\* The denial test made after the extraction: a page from which courses
\* were extracted is not looked at.
Denied_after_parse(doc) ==
    courses(doc) = <<>> /\ Contains("You are not authorize", BodyText(doc))

\* Line 54.
Denied(doc) == Contains("You are not authorize", BodyText(doc))

\* --------------------------------------------------------------- inputs
\* What the portal can answer.  The rows a result page is built from:
HeaderRow ==
    <<Th(<<"Sr">>), Th(<<"Semester">>), Th(<<"Teacher Name">>), Th(<<"Course Code">>),
      Th(<<"Course Title">>), Th(<<"Credit Hours">>), Th(<<"Mid">>), Th(<<"Assignment">>),
      Th(<<"Final">>), Th(<<"Practical">>), Th(<<"Total">>), Th(<<"Grade">>)>>

\* A data row of exactly MinCells td cells, padded with whitespace.
DataRowA ==
    <<Td(<<"1">>), Td(<<" ", "Winter", " ", "2020", "\n">>), Td(<<"Dr A">>),
      Td(<<"\n", "CS-101", " ">>), Td(<<"Intro", " ", "Computing">>), Td(<<"3(2-1)">>),
      Td(<<"10">>), Td(<<"8">>), Td(<<"30">>), Td(<<"12">>), Td(<<" ", "60">>),
      Td(<<"B", "\n">>)>>

\* A data row with one td more than MinCells.
DataRowB ==
    <<Td(<<"2">>), Td(<<"Spring", " ", "2021">>), Td(<<"Dr B">>), Td(<<"course code">>),
      Td(<<"Calculus">>), Td(<<"3(3-0)">>), Td(<<"11">>), Td(<<"9">>), Td(<<"31">>),
      Td(<<"0">>), Td(<<"51">>), Td(<<"C">>), Td(<<"remark">>)>>

\* A row one td short of MinCells.
ShortRow ==
    <<Td(<<"3">>), Td(<<"Fall", " ", "2021">>), Td(<<"Dr C">>), Td(<<"EE-201">>),
      Td(<<"Circuits">>), Td(<<"4(3-1)">>), Td(<<"12">>), Td(<<"7">>), Td(<<"29">>),
      Td(<<"14">>), Td(<<"62">>)>>

NameRow == <<Td(<<"Student Full Name">>), Td(<<" ", "Ali", " ", "Khan", "\n">>)>>

\* The label in a header cell: the row has two cells and one td.
NameRowTh == <<Th(<<"STUDENT FULL NAME">>), Td(<<"Sara">>)>>

\* A layout row: one td that wraps a whole course table.
LayoutRow == <<TdWith(<<"\n">>, <<Table(<<HeaderRow, DataRowA>>)>>)>>

RowPool == {HeaderRow, DataRowA, DataRowB, ShortRow, NameRow, NameRowTh, LayoutRow}

DenialNode == TextNode(<<"You are not authorize", " ", "to view this page">>)

LooseNodes ==
    {DenialNode,
     TextNode(<<"Student Full Name", " ", "Omar">>),
     TextNode(<<"Course Code">>),
     Table(<<>>)}

RECURSIVE RowSeqs(_)
\* The sequences of exactly n rows of the pool.
RowSeqs(n) ==
    IF n = 0 THEN {<<>>}
    ELSE {<<r>> \o rs : r \in RowPool, rs \in RowSeqs(n - 1)}

\* The top-level nodes with exactly k rows.
NodesOfRows(k) ==
    IF k = 0 THEN LooseNodes ELSE {Table(rs) : rs \in RowSeqs(k)}

RECURSIVE Docs(_, _)
\* The documents of at most n top-level nodes and at most r rows in all.
Docs(n, r) ==
    IF n = 0 THEN {<<>>}
    ELSE LET first == [k \in 0..r |-> NodesOfRows(k)]
             rest == [k \in 0..r |-> Docs(n - 1, r - k)]
         IN  {<<>>} \cup
             UNION {{<<nd>> \o d : nd \in first[k], d \in rest[k]} : k \in 0..r}

\* The result pages of specification Spec, where requests interleave.
SamplePages ==
    {<<>>,
     <<Table(<<HeaderRow>>)>>,
     <<Table(<<HeaderRow, DataRowA>>)>>,
     <<DenialNode, Table(<<HeaderRow, DataRowA>>)>>}

LoginPages ==
    {<<"<html>", TokenPrefix, "abc123", Quote, ";", "</html>">>,
     <<"<html>", "</html>">>,
     <<TokenPrefix, "abc", "\n", Quote>>,
     <<TokenPrefix, Quote>>,
     <<TokenPrefix, "x", "\n", TokenPrefix, "t2", Quote, Quote>>}

\* One login page with a token and one without, for specification Spec.
SampleLogins ==
    {<<"<html>", TokenPrefix, "abc123", Quote, ";", "</html>">>,
     <<"<html>", "</html>">>}

Statuses == {200, 503}
RegistrationNumbers == {"2020-ag-1234", ""}
PortalCookies == {"MoodleSession"}

\* What writing the debug file can do: succeed, fail in open() (the file is
\* untouched), or fail in write()/close() after open() truncated the file.
WriteOutcomes == {"ok", "open_failed", "write_failed"}

Requests == 1..NumRequests

\* ---------------------------------------------------------------- state
VARIABLES
    inv,         \* per request: the coroutine's position and local variables
    clients,     \* every httpx.AsyncClient created so far, in creation order
    calls,       \* per request: the outbound calls it has issued, in order
    http,        \* per request: the response sent to the caller, once sent
    debug_file,  \* c:\xampp\htdocs\debug_last_fail.html
    last_empty   \* history: the last request that found no courses

vars == <<inv, clients, calls, http, debug_file, last_empty>>

None == <<>>
Some(v) == <<v>>

NoFile == None
\* A file holding text; complete is FALSE when the write broke off and
\* only a proper prefix of text is on disk.
File(text, complete) == Some([text |-> text, complete |-> complete])

IdleLocals ==
    [pc |-> "idle", registration_number |-> "", client |-> 0,
     response |-> None, token |-> None, res_response |-> None,
     soup |-> None, write |-> None, outcome |-> None]

Init ==
    /\ inv = [i \in Requests |-> IdleLocals]
    /\ clients = <<>>
    /\ calls = [i \in Requests |-> <<>>]
    /\ http = [i \in Requests |-> None]
    /\ debug_file = NoFile
    /\ last_empty = None

\* ----------------------------------------------------------- exceptions
HTTPException(status_code, msg, info) ==
    [type |-> "HTTPException", status_code |-> status_code,
     detail |-> [msg |-> msg, info |-> info]]

TokenNotFound ==
    HTTPException(500, "Could not find security token on UAF page.", None)
AuthorizationDenied ==
    HTTPException(403, "UAF Server denied authorization (Session expired or blocked).", None)
NoResultsFound(doc) ==
    HTTPException(404, "No course results found. Debug: ", Some(debug_info(doc)))

\* httpx exceptions: both kinds derive from httpx.HTTPError.
TransportError(method) ==
    [type |-> "TransportError", message |-> [method |-> method]]
HTTPStatusError(status) ==
    [type |-> "HTTPStatusError", message |-> [status |-> status]]
OSError(what) == [type |-> "OSError", message |-> [errno |-> what]]

IsHTTPError(e) == e.type \in {"TransportError", "HTTPStatusError"}

Raise(e) == [kind |-> "raise", exc |-> e]
Return(v) == [kind |-> "return", value |-> v]

\* No raise_for_status(): every status passes.
StatusOk_unchecked(status) == TRUE

\* Response.raise_for_status() passes.
StatusOk(status) == status \in 200..299

\* Lines 109-118.
SuccessValue(registration_number, doc) ==
    [success |-> TRUE,
     student_info |-> [registration_number |-> registration_number,
                       full_name |-> student_name(doc),
                       program |-> "Inferred Degree",
                       department |-> ""],
     courses |-> courses(doc)]

\* Lines 120-130 and FastAPI: what the caller receives for an outcome.
Handle(outcome) ==
    IF outcome.kind = "return"
    THEN [status |-> 200, body |-> outcome.value]
    ELSE LET e == outcome.exc
         IN  IF e.type = "HTTPException"
             THEN [status |-> e.status_code, body |-> e.detail]
             ELSE IF IsHTTPError(e)
             THEN [status |-> 500,
                   body |-> [msg |-> "Failed to fetch from UAF: ", info |-> e.message]]
             ELSE [status |-> 500,
                   body |-> [msg |-> "Scraping error: ", info |-> e.message]]

\* -------------------------------------------------------------- actions
\* The responses of the portal with these statuses and bodies.  Every one
\* sets the portal's session cookie.
Answers(statuses, texts) ==
    [status : statuses, text : texts, cookies : {PortalCookies}]

\* A response object: a status, a body and the cookies it sets.
IsResponse(resp) ==
    /\ DOMAIN resp = {"status", "text", "cookies"}
    /\ resp.status \in Statuses

\* One client for the whole process: the first one created.
ClientOf_shared(i) == 1

\* The client a request sends its calls through (line 33: as client).
ClientOf(i) == inv[i].client

Call(i, method, url, data) ==
    [method |-> method, url |-> url, client |-> ClientOf(i),
     cookies |-> clients[ClientOf(i)].cookies, data |-> data]

\* Line 46-49.
Payload(i, token) ==
    [token |-> token, Register |-> inv[i].registration_number]

\* Lines 28-35: the request arrives, the client is created and the GET sent.
Begin(i, reg) ==
    /\ inv[i].pc = "idle"
    /\ clients' = Append(clients, [closed |-> FALSE, cookies |-> {}])
    /\ inv' = [inv EXCEPT ![i].pc = "await_get",
                          ![i].registration_number = reg,
                          ![i].client = Len(clients) + 1]
    /\ calls' = [calls EXCEPT ![i] =
                    Append(@, [method |-> "GET", url |-> UAF_LOGIN_URL,
                               client |-> Len(clients) + 1, cookies |-> {},
                               data |-> None])]
    /\ UNCHANGED <<http, debug_file, last_empty>>

\* Line 35 raises: no connection, a timeout, too many redirects.
GetFails(i) ==
    /\ inv[i].pc = "await_get"
    /\ inv' = [inv EXCEPT ![i].pc = "exit",
                          ![i].outcome = Some(Raise(TransportError("GET")))]
    /\ UNCHANGED <<clients, calls, http, debug_file, last_empty>>

\* Lines 35-51: the login page arrives; the token is searched and the POST
\* sent, on the same client, with the cookies the client holds by then.
GetResponds(i, resp) ==
    /\ inv[i].pc = "await_get"
    /\ IsResponse(resp)
    /\ clients' = [clients EXCEPT ![ClientOf(i)].cookies = @ \cup resp.cookies]
    /\ LET token_match == token_search(resp.text)
       IN  IF ~StatusOk(resp.status)
           THEN /\ inv' = [inv EXCEPT ![i].pc = "exit",
                                      ![i].response = Some(resp),
                                      ![i].outcome =
                                          Some(Raise(HTTPStatusError(resp.status)))]
                /\ calls' = calls
           ELSE IF ~token_match.found
           THEN /\ inv' = [inv EXCEPT ![i].pc = "exit",
                                      ![i].response = Some(resp),
                                      ![i].outcome = Some(Raise(TokenNotFound))]
                /\ calls' = calls
           ELSE /\ inv' = [inv EXCEPT ![i].pc = "await_post",
                                      ![i].response = Some(resp),
                                      ![i].token = Some(token_match.group1)]
                /\ calls' = [calls EXCEPT ![i] =
                                Append(@, [Call(i, "POST", UAF_RESULT_URL,
                                                Some(Payload(i, token_match.group1)))
                                           EXCEPT !.cookies = clients'[ClientOf(i)].cookies])]
    /\ UNCHANGED <<http, debug_file, last_empty>>

\* Line 51 raises.
PostFails(i) ==
    /\ inv[i].pc = "await_post"
    /\ inv' = [inv EXCEPT ![i].pc = "exit",
                          ![i].outcome = Some(Raise(TransportError("POST")))]
    /\ UNCHANGED <<clients, calls, http, debug_file, last_empty>>

\* The file opened with mode "a": a write adds to what the file holds.
Written_append(file, text, wr) ==
    LET old == IF file = NoFile THEN <<>> ELSE file[1].text
    IN  CASE wr = "ok" -> File(old \o text, TRUE)
          [] wr = "open_failed" -> file
          [] wr = "write_failed" -> File(old \o text, FALSE)

\* Lines 103-104 for a write that does wr: the file afterwards.
Written(file, text, wr) ==
    CASE wr = "ok" -> File(text, TRUE)
      [] wr = "open_failed" -> file
      [] wr = "write_failed" -> File(text, FALSE)

\* Lines 97-107: no courses.  The file is written, then 404 is raised; a
\* failed write raises OSError from line 103 or 104 instead.
EmptyOutcome(doc, wr) ==
    IF wr = "ok" THEN Raise(NoResultsFound(doc)) ELSE Raise(OSError(wr))

\* Lines 51-118: the result page arrives and is checked and parsed.
PostResponds(i, resp) ==
    /\ inv[i].pc = "await_post"
    /\ IsResponse(resp)
    /\ clients' = [clients EXCEPT ![ClientOf(i)].cookies = @ \cup resp.cookies]
    /\ IF ~StatusOk(resp.status)
       THEN /\ inv' = [inv EXCEPT ![i].pc = "exit",
                                  ![i].res_response = Some(resp),
                                  ![i].outcome =
                                      Some(Raise(HTTPStatusError(resp.status)))]
            /\ UNCHANGED <<debug_file, last_empty>>
       ELSE IF Denied(resp.text)
       THEN /\ inv' = [inv EXCEPT ![i].pc = "exit",
                                  ![i].res_response = Some(resp),
                                  ![i].outcome = Some(Raise(AuthorizationDenied))]
            /\ UNCHANGED <<debug_file, last_empty>>
       ELSE IF courses(resp.text) = <<>>
       THEN \E wr \in WriteOutcomes :
            /\ inv' = [inv EXCEPT ![i].pc = "exit",
                                  ![i].res_response = Some(resp),
                                  ![i].soup = Some(resp.text),
                                  ![i].write = Some(wr),
                                  ![i].outcome = Some(EmptyOutcome(resp.text, wr))]
            /\ debug_file' = Written(debug_file, resp.text, wr)
            /\ last_empty' = Some([request |-> i, text |-> resp.text, write |-> wr])
       ELSE /\ inv' = [inv EXCEPT ![i].pc = "exit",
                                  ![i].res_response = Some(resp),
                                  ![i].soup = Some(resp.text),
                                  ![i].outcome =
                                      Some(Return(SuccessValue(inv[i].registration_number,
                                                               resp.text)))]
            /\ UNCHANGED <<debug_file, last_empty>>
    /\ UNCHANGED <<calls, http>>

\* No async with: the client is closed by a call at the end of the try
\* block, which an exception skips.
ExitClient_no_finally(i) ==
    /\ inv[i].pc = "exit"
    /\ clients' = [clients EXCEPT ![ClientOf(i)].closed =
                      inv[i].outcome[1].kind = "return"]
    /\ inv' = [inv EXCEPT ![i].pc = "except"]
    /\ UNCHANGED <<calls, http, debug_file, last_empty>>

\* Line 33, leaving the async with block by return or by exception: the
\* client is closed before any except clause runs.
ExitClient(i) ==
    /\ inv[i].pc = "exit"
    /\ clients' = [clients EXCEPT ![ClientOf(i)].closed = TRUE]
    /\ inv' = [inv EXCEPT ![i].pc = "except"]
    /\ UNCHANGED <<calls, http, debug_file, last_empty>>

\* Lines 120-130: the except clauses, and the response leaves.
Respond(i) ==
    /\ inv[i].pc = "except"
    /\ http' = [http EXCEPT ![i] = Some(Handle(inv[i].outcome[1]))]
    /\ inv' = [inv EXCEPT ![i].pc = "done"]
    /\ UNCHANGED <<clients, calls, debug_file, last_empty>>

\* Requests interleave at their awaits.  The portal's answers here: the
\* sample pages with status 200; a call that fails raises in GetFails or
\* PostFails (error statuses are the subject of SpecLogin and SpecFetch).
Next ==
    \E i \in Requests :
        \/ Begin(i, "2020-ag-1234")
        \/ GetFails(i)
        \/ /\ inv[i].pc = "await_get"
           /\ \E resp \in Answers({200}, SampleLogins) : GetResponds(i, resp)
        \/ PostFails(i)
        \/ /\ inv[i].pc = "await_post"
           /\ \E resp \in Answers({200}, SamplePages) : PostResponds(i, resp)
        \/ ExitClient(i)
        \/ Respond(i)

Spec == Init /\ [][Next]_vars

\* One request alone, over every login page.
NextLogin ==
    \/ \E reg \in RegistrationNumbers : Begin(1, reg)
    \/ GetFails(1)
    \/ /\ inv[1].pc = "await_get"
       /\ \E resp \in Answers(Statuses, LoginPages) : GetResponds(1, resp)
    \/ PostFails(1)
    \/ /\ inv[1].pc = "await_post"
       /\ \E resp \in Answers(Statuses, SamplePages) : PostResponds(1, resp)
    \/ ExitClient(1)
    \/ Respond(1)

SpecLogin == Init /\ [][NextLogin]_vars

\* One request alone, over every result page.  The registration number
\* has no part in how a page is handled: the first one meets every page
\* with status 200, and both meet the sample pages with every status.
NextFetch ==
    \/ \E reg \in RegistrationNumbers : Begin(1, reg)
    \/ GetFails(1)
    \/ /\ inv[1].pc = "await_get"
       /\ \E resp \in Answers(Statuses, SampleLogins) : GetResponds(1, resp)
    \/ PostFails(1)
    \/ /\ inv[1].pc = "await_post"
       /\ \/ /\ inv[1].registration_number # ""
             /\ \E resp \in Answers({200}, Docs(MaxNodes, MaxRows)) :
                   PostResponds(1, resp)
          \/ \E resp \in Answers(Statuses, SamplePages) : PostResponds(1, resp)
    \/ ExitClient(1)
    \/ Respond(1)

SpecFetch == Init /\ [][NextFetch]_vars

\* ================================================================ claims
\* The vocabulary of the claims, stated apart from the code's operators.
Done(i) == inv[i].pc = "done"
Sent(i) == http[i][1]
Got(i) == inv[i].response[1]
Page(i) == inv[i].res_response[1]
Posts(i) == {k \in DOMAIN calls[i] : calls[i][k].method = "POST"}
Gets(i) == {k \in DOMAIN calls[i] : calls[i][k].method = "GET"}

\* The call completed at the HTTP level: a 2xx status.
HttpSuccess(resp) == resp.status >= 200 /\ resp.status < 300

\* The body holds the token assignment: the prefix, then a closing quote
\* on the same line.
HasTokenPattern(text) ==
    \E k \in DOMAIN text : \E j \in DOMAIN text :
        /\ text[k] = TokenPrefix
        /\ j > k
        /\ text[j] \in {Quote, TokenPrefix}
        /\ \A m \in (k + 1)..(j - 1) : text[m] # "\n"

IsTokenNotFound(r) ==
    r.status = 500 /\ r.body.msg = "Could not find security token on UAF page."
IsAuthorizationDenied(r) ==
    /\ r.status = 403
    /\ r.body.msg = "UAF Server denied authorization (Session expired or blocked)."
IsNoResultsFound(r) ==
    r.status = 404 /\ r.body.msg = "No course results found. Debug: "
IsTransportError(r) ==
    r.status = 500 /\ r.body.msg = "Failed to fetch from UAF: "
IsSuccess(r) == r.status = 200

\* ------------------------------------------------------------------ C1
\* C1 as stated: whenever the login page returned by the GET lacks the
\* token pattern, the request fails with TokenNotFound (HTTP 500) and no
\* POST is issued.
C1_AsStated ==
    \A i \in Requests :
        (inv[i].response # None /\ ~HasTokenPattern(Got(i).text)) =>
            /\ Posts(i) = {}
            /\ Done(i) => IsTokenNotFound(Sent(i))

\* C1: whenever the login page returned by the GET lacks the token
\* pattern, no POST is ever issued and the request fails with HTTP 500;
\* the failure is TokenNotFound when the GET passed raise_for_status, and
\* the transport failure ("Failed to fetch from UAF") when the login
\* response carried an error status.
C1_NoTokenNoPost ==
    \A i \in Requests :
        (inv[i].response # None /\ ~HasTokenPattern(Got(i).text)) =>
            /\ Posts(i) = {}
            /\ inv[i].pc # "await_post"
            /\ Done(i) =>
                /\ Sent(i).status = 500
                /\ HttpSuccess(Got(i)) => IsTokenNotFound(Sent(i))
                /\ ~HttpSuccess(Got(i)) => IsTransportError(Sent(i))

\* A login page with the prefix but no closing quote on its line was
\* answered with TokenNotFound.
C1_Witness ==
    /\ Done(1)
    /\ inv[1].response # None
    /\ HttpSuccess(Got(1))
    /\ Contains(TokenPrefix, Got(1).text)
    /\ ~HasTokenPattern(Got(1).text)
    /\ IsTokenNotFound(Sent(1))
    /\ Len(calls[1]) = 1

\* ------------------------------------------------------------------ C2
\* The denial phrase stands in a text node of the page.
DenialInBody(doc) ==
    \E k \in DOMAIN doc :
        /\ doc[k].kind = "text"
        /\ \E a \in DOMAIN doc[k].text : doc[k].text[a] = "You are not authorize"

\* C2 as stated: whenever the body returned by the POST holds the denial
\* phrase, the request fails with AuthorizationDenied (HTTP 403).
C2_AsStated ==
    \A i \in Requests :
        (Done(i) /\ inv[i].res_response # None /\ DenialInBody(Page(i).text)) =>
            IsAuthorizationDenied(Sent(i))

\* C2: whenever the body returned by the POST holds the denial phrase, the
\* page is never parsed, the debug file is not written, and the outcome is
\* never success and never NoResultsFound, whatever tables the body has:
\* it is AuthorizationDenied (403) when the POST passed raise_for_status,
\* and the transport failure (500) when the response carried an error
\* status.
C2_DenialWins ==
    \A i \in Requests :
        (inv[i].res_response # None /\ DenialInBody(Page(i).text)) =>
            /\ inv[i].soup = None
            /\ inv[i].write = None
            /\ Done(i) =>
                /\ ~IsSuccess(Sent(i))
                /\ ~IsNoResultsFound(Sent(i))
                /\ HttpSuccess(Page(i)) => IsAuthorizationDenied(Sent(i))
                /\ ~HttpSuccess(Page(i)) => IsTransportError(Sent(i))

\* A denied page that also holds a course table with two data rows.
C2_Witness ==
    /\ Done(1)
    /\ inv[1].res_response # None
    /\ HttpSuccess(Page(1))
    /\ DenialInBody(Page(1).text)
    /\ Len(courses(Page(1).text)) >= 2
    /\ IsAuthorizationDenied(Sent(1))

\* ------------------------------------------------------------------ C3
\* The page, once parsed, has no target table or no data row in it.
NoDataRows(doc) ==
    LET target == target_table(doc)
        rows == find_all_tr(target[1])
    IN  target = None \/ \A k \in DOMAIN rows : Len(find_all_td(rows[k])) < MinCells

\* C3 as stated: a request ends in a success carrying student info and a
\* non-empty course list, or in an error; and a parsed page without a
\* target table, or whose target table has no data row, is answered with
\* NoResultsFound (HTTP 404).
C3_AsStated ==
    \A i \in Requests :
        Done(i) =>
            /\ IsSuccess(Sent(i)) =>
                /\ Sent(i).body.success
                /\ Sent(i).body.courses # <<>>
                /\ Sent(i).body.student_info.registration_number =
                       inv[i].registration_number
            /\ ~IsSuccess(Sent(i)) => Sent(i).status \in {403, 404, 500}
            /\ (inv[i].soup # None /\ NoDataRows(inv[i].soup[1])) =>
                   IsNoResultsFound(Sent(i))

\* ------------------------------------------------------------------ C6
\* C6 as stated: when no course was found and writing the debug file
\* fails, the request still fails with NoResultsFound (HTTP 404) and the
\* detail carries the table count, whether a target table was found and
\* its row count.
C6_AsStated ==
    \A i \in Requests :
        (Done(i) /\ inv[i].write \in {Some("open_failed"), Some("write_failed")}) =>
            /\ IsNoResultsFound(Sent(i))
            /\ Sent(i).body.info = Some(debug_info(inv[i].soup[1]))

\* ------------------------------------------------------------------ C8
\* C8: a request issues at most one GET to the login URL and then at most
\* one POST to the results URL; the POST is issued only after the GET
\* returned with a 2xx status and a token was extracted, and carries that
\* token; the page is parsed only after the POST returned with a 2xx
\* status; a failed or error-status call is not issued again, nothing
\* after it runs, and the request is answered with HTTP 500.
C8_LinearNoRetry ==
    \A i \in Requests :
        /\ Len(calls[i]) <= 2
        /\ \A k \in DOMAIN calls[i] :
              /\ k = 1 => calls[i][k].method = "GET" /\ calls[i][k].url = UAF_LOGIN_URL
              /\ k = 2 => calls[i][k].method = "POST" /\ calls[i][k].url = UAF_RESULT_URL
        /\ Posts(i) # {} =>
              /\ inv[i].response # None
              /\ HttpSuccess(Got(i))
              /\ HasTokenPattern(Got(i).text)
              /\ inv[i].token # None
              /\ calls[i][2].data[1].token = inv[i].token[1]
        /\ (inv[i].soup # None \/ inv[i].write # None) =>
              /\ inv[i].res_response # None
              /\ HttpSuccess(Page(i))
        /\ inv[i].res_response # None => Posts(i) # {}
        /\ (Done(i) /\ (inv[i].response = None \/ ~HttpSuccess(Got(i)))) =>
              /\ Sent(i).status = 500
              /\ IsTransportError(Sent(i))
              /\ Posts(i) = {}
              /\ inv[i].soup = None
        /\ (Done(i) /\ Posts(i) # {}
                    /\ (inv[i].res_response = None \/ ~HttpSuccess(Page(i)))) =>
              /\ IsTransportError(Sent(i))
              /\ Len(calls[i]) = 2
              /\ inv[i].soup = None
              /\ inv[i].write = None

\* The POST came back with an error status after a good GET: one GET, one
\* POST, no parse, HTTP 500.
C8_Witness ==
    /\ Done(1)
    /\ inv[1].res_response # None
    /\ ~HttpSuccess(Page(1))
    /\ courses(Page(1).text) # <<>>
    /\ Len(calls[1]) = 2
    /\ Sent(1).status = 500

\* ------------------------------------------------------------------ C4
\* Leading and trailing whitespace removed, by position.
Trim(s) ==
    LET solid == {k \in DOMAIN s : s[k] \notin {" ", "\n"}}
    IN  IF solid = {} THEN <<>>
        ELSE SubSeq(s, CHOOSE a \in solid : \A b \in solid : a <= b,
                       CHOOSE a \in solid : \A b \in solid : a >= b)

MarkerForms == {"Course Code", "COURSE CODE", "course code"}

\* Some text inside the table holds the marker, in any case.
HasMarker(t) ==
    LET ss == TableStrings(t)
    IN  \E k \in DOMAIN ss : \E a \in DOMAIN ss[k].text : ss[k].text[a] \in MarkerForms

\* The first table of the page, in document order, that holds the marker.
Selected(doc) ==
    LET ts == find_all_table(doc)
        marked == {k \in DOMAIN ts : HasMarker(ts[k])}
        first == {k \in marked : \A j \in marked : k <= j}
    IN  [k \in 1..Cardinality(first) |-> ts[CHOOSE f \in first : TRUE]]

\* The cells of a row: the td elements inside it.
Cells(r) == find_all_td(r)
IsDataRow(r) == Len(Cells(r)) >= 12

\* The entry of a data row: cell 1 is the semester, 3 the code, 4 the
\* title, 5 the credit hours, 10 the total and 11 the grade (from 0).
EntryOf(r) ==
    LET cells == Cells(r)
    IN
    [key \in CourseKeys |->
        Trim(CellText(cells[1 +
            (CASE key = "Semester" -> 1
               [] key = "Course Code" -> 3
               [] key = "Course Title" -> 4
               [] key = "Credit Hours" -> 5
               [] key = "Total" -> 10
               [] key = "Grade" -> 11)]))]

EntriesOf(rows) ==
    LET data == SelectSeq(rows, IsDataRow)
    IN  [k \in 1..Len(data) |-> EntryOf(data[k])]

LabelForms == {"Student Full Name", "STUDENT FULL NAME"}

\* The first text node of the page holding the label, with its row.
Label(doc) ==
    LET ss == DocStrings(doc)
        labelled == {k \in DOMAIN ss :
                        \E a \in DOMAIN ss[k].text : ss[k].text[a] \in LabelForms}
        first == {k \in labelled : \A j \in labelled : k <= j}
    IN  [k \in 1..Cardinality(first) |-> ss[CHOOSE f \in first : TRUE]]

\* The name the claim prescribes for a page.
NameRule(doc) ==
    LET label == Label(doc)
    IN  IF label = <<>> \/ label[1].tr = <<>> \/ Len(Cells(label[1].tr[1])) < 2
        THEN <<"Unknown Student">>
        ELSE Trim(CellText(Cells(label[1].tr[1])[2]))

HasDataRow(doc) ==
    LET selected == Selected(doc)
        rows == find_all_tr(selected[1])
    IN  selected # <<>> /\ \E k \in DOMAIN rows : IsDataRow(rows[k])

\* C5 as stated: whenever the result page has a data row, the request
\* succeeds, and full_name is "Unknown Student" when the label is absent,
\* outside any row, or in a row of fewer than two cells, and the trimmed
\* text of the row's second cell otherwise.
C5_AsStated ==
    \A i \in Requests :
        (Done(i) /\ inv[i].res_response # None /\ HasDataRow(Page(i).text)) =>
            /\ IsSuccess(Sent(i))
            /\ Sent(i).body.student_info.full_name = NameRule(Page(i).text)

\* C5: whenever the result page is parsed (the POST returned a 2xx status
\* and the body lacks the denial phrase) and has a data row, the request
\* succeeds whether or not a name is found, and full_name is "Unknown
\* Student" when the label is absent, outside any row, or in a row with
\* fewer than two td cells inside it, and the trimmed text of the second
\* td cell inside that row otherwise.
C5_NameFallback ==
    \A i \in Requests :
        /\ (Done(i) /\ inv[i].res_response # None /\ HttpSuccess(Page(i))
                    /\ ~DenialInBody(Page(i).text) /\ HasDataRow(Page(i).text)) =>
              /\ IsSuccess(Sent(i))
              /\ Sent(i).body.student_info.full_name = NameRule(Page(i).text)
              /\ Sent(i).body.student_info.registration_number =
                     inv[i].registration_number
        /\ (Done(i) /\ IsSuccess(Sent(i))) => HasDataRow(Page(i).text)

\* A success with the placeholder: the label's row has a th and one td.
C5_Witness ==
    /\ Done(1)
    /\ IsSuccess(Sent(1))
    /\ Label(Page(1).text) # <<>>
    /\ Label(Page(1).text)[1].tr = <<NameRowTh>>
    /\ Sent(1).body.student_info.full_name = <<"Unknown Student">>

\* ------------------------------------------------------------------ C7
\* The request changed the debug file: open() succeeded.
WroteFile(i) == inv[i].write \in {Some("ok"), Some("write_failed")}

Failure(status, msg, info) ==
    [status |-> status, body |-> [msg |-> msg, info |-> info]]

\* What a request answers when it runs alone, from its own inputs only:
\* its registration number, the two answers of the portal and what the
\* write of the debug file did.
Alone(i) ==
    IF inv[i].response = None
    THEN Failure(500, "Failed to fetch from UAF: ", [method |-> "GET"])
    ELSE IF ~HttpSuccess(Got(i))
    THEN Failure(500, "Failed to fetch from UAF: ", [status |-> Got(i).status])
    ELSE IF ~HasTokenPattern(Got(i).text)
    THEN Failure(500, "Could not find security token on UAF page.", None)
    ELSE IF inv[i].res_response = None
    THEN Failure(500, "Failed to fetch from UAF: ", [method |-> "POST"])
    ELSE IF ~HttpSuccess(Page(i))
    THEN Failure(500, "Failed to fetch from UAF: ", [status |-> Page(i).status])
    ELSE IF DenialInBody(Page(i).text)
    THEN Failure(403, "UAF Server denied authorization (Session expired or blocked).", None)
    ELSE LET doc == Page(i).text
             selected == Selected(doc)
             rows == IF selected = <<>> THEN <<>> ELSE find_all_tr(selected[1])
             entries == EntriesOf(rows)
         IN  IF entries # <<>>
             THEN [status |-> 200,
                   body |-> [success |-> TRUE,
                             student_info |->
                                 [registration_number |-> inv[i].registration_number,
                                  full_name |-> NameRule(doc),
                                  program |-> "Inferred Degree",
                                  department |-> ""],
                             courses |-> entries]]
             ELSE IF inv[i].write = Some("ok")
             THEN Failure(404, "No course results found. Debug: ",
                          Some([tables |-> Len(find_all_table(doc)),
                                target_found |-> selected # <<>>,
                                rows |-> IF selected = <<>> THEN <<>>
                                         ELSE <<Len(rows)>>]))
             ELSE Failure(500, "Scraping error: ", [errno |-> inv[i].write[1]])

\* Each request has a client of its own, sends every call through it, and
\* posts its own token and registration number with the cookies its own
\* GET received.
OwnSession(i) ==
    /\ inv[i].pc # "idle" => inv[i].client \in DOMAIN clients
    /\ \A j \in Requests \ {i} :
          inv[i].pc # "idle" /\ inv[j].pc # "idle" => inv[i].client # inv[j].client
    /\ \A k \in DOMAIN calls[i] : calls[i][k].client = inv[i].client
    /\ Posts(i) # {} =>
          /\ calls[i][2].data =
                 Some([token |-> inv[i].token[1],
                       Register |-> inv[i].registration_number])
          /\ calls[i][2].cookies = Got(i).cookies

\* C7 as stated: requests share no mutable state: no client, and no file
\* that one request writes and another request writes too; each answers
\* as if it ran alone.
C7_AsStated ==
    \A i \in Requests :
        /\ OwnSession(i)
        /\ \A j \in Requests \ {i} : ~(WroteFile(i) /\ WroteFile(j))
        /\ Done(i) => Sent(i) = Alone(i)

\* C7: requests share no client, cookie jar or local variable, and each
\* answers as if it ran alone, whatever the interleaving; the one thing
\* several requests write is the debug file (and the process-wide logger),
\* which none of them reads: it holds what one of the requests that
\* reached the empty-result path wrote.
C7_Isolation ==
    /\ \A i \in Requests :
          /\ OwnSession(i)
          /\ Done(i) => Sent(i) = Alone(i)
    /\ debug_file # NoFile =>
          \E i \in Requests : WroteFile(i) /\ debug_file[1].text = Page(i).text

\* Request 1 began first and wrote the file last; request 2 began second,
\* found another empty page and wrote the file in between.
C7_Witness ==
    /\ Done(1) /\ Done(2)
    /\ inv[1].client = 1
    /\ inv[1].write = Some("ok") /\ inv[2].write = Some("ok")
    /\ Page(1).text # Page(2).text
    /\ last_empty # None /\ last_empty[1].request = 1
    /\ Sent(1) # Sent(2)

\* ------------------------------------------------------------------ C9
\* C9 as stated: the file changes only on the empty-result path, and it
\* holds the body of the last request that reached that path.
C9_AsStated ==
    /\ last_empty = None => debug_file = NoFile
    /\ last_empty # None => debug_file = File(last_empty[1].text, TRUE)

\* Request i takes the empty-result path in this step.
EmptyStep(i) == inv[i].pc = "await_post" /\ inv'[i].write # None

C9_Step ==
    /\ (\A i \in Requests : ~EmptyStep(i)) => debug_file' = debug_file
    /\ \A i \in Requests :
          (inv[i].pc = "await_post" /\ inv'[i].pc = "exit") =>
              (inv'[i].write # None <=>
                  /\ inv'[i].res_response # None
                  /\ HttpSuccess(inv'[i].res_response[1])
                  /\ ~DenialInBody(inv'[i].res_response[1].text)
                  /\ ~HasDataRow(inv'[i].res_response[1].text))
    /\ \A i \in Requests :
          EmptyStep(i) =>
              LET body == inv'[i].res_response[1].text
                  wr == inv'[i].write[1]
              IN  /\ wr = "ok" => debug_file' = File(body, TRUE)
                  /\ wr = "open_failed" => debug_file' = debug_file
                  /\ wr = "write_failed" =>
                        debug_file' # NoFile /\ ~debug_file'[1].complete

\* C9: the file changes only when a request takes the empty-result path
\* (a parsed page without data rows); a request that ends in success,
\* TokenNotFound, AuthorizationDenied or a transport error leaves it as it
\* was.  A write that succeeds replaces the whole content by that
\* request's body, so that the file holds the body of the last request
\* whose write succeeded unless a later write failed; a write that fails
\* in open() leaves the file as it was, and one that fails after open()
\* leaves it truncated.
C9_FileFrame ==
    /\ [](last_empty # None /\ last_empty[1].write = "ok" =>
              debug_file = File(last_empty[1].text, TRUE))
    /\ [][C9_Step]_vars

\* Two requests wrote different bodies; the file holds the later one.
C9_Witness ==
    /\ inv[1].write = Some("ok") /\ inv[2].write = Some("ok")
    /\ Page(1).text # Page(2).text
    /\ last_empty # None /\ last_empty[1].request = 2
    /\ debug_file = File(Page(2).text, TRUE)

\* ----------------------------------------------------------------- C10
\* C10: each request creates exactly one client, sends its GET and its
\* POST through it (the POST with the cookies the GET received), and the
\* client is open while the request is in the async with block and closed
\* on every way out of it, before the response leaves; no client is used
\* by two requests.
C10_SessionScope ==
    /\ Len(clients) = Cardinality({i \in Requests : inv[i].pc # "idle"})
    /\ \A i \in Requests :
          /\ OwnSession(i)
          /\ inv[i].pc \in {"await_get", "await_post", "exit"} =>
                ~clients[inv[i].client].closed
          /\ inv[i].pc \in {"except", "done"} => clients[inv[i].client].closed
          /\ http[i] # None => clients[inv[i].client].closed
          /\ http[i] # None <=> Done(i)

\* Both requests have answered, one with success and one with the error
\* of a failed write, and both clients are closed.
C10_Witness ==
    /\ Done(1) /\ Done(2)
    /\ IsSuccess(Sent(1))
    /\ Sent(2).status = 500 /\ Sent(2).body.msg = "Scraping error: "
    /\ clients[inv[1].client].closed /\ clients[inv[2].client].closed
    /\ inv[1].client # inv[2].client

=============================================================================
